---- MODULE Spec2Model ----
(***************************************************************************)
(* A model of network_based_config: the MAC normaliser, the tri-state      *)
(* signal predicates, the two match policies and the rule loop of the      *)
(* main program.                                                           *)
(*                                                                         *)
(* Python values are written as follows.                                   *)
(*   str           a tuple of one-character strings ("a:1" is              *)
(*                 <<"a", ":", "1">>), so that split, int(x, 16) and       *)
(*                 format work on characters;                              *)
(*   True, False, None   the strings "True", "False", "None";              *)
(*   a raised exception  the name of its kind: "ValueError",               *)
(*                 "AttributeError", "ProbeError" (whatever requests or    *)
(*                 netifaces raise when a probe cannot answer);            *)
(*   dict (a rule) a function whose DOMAIN is the keys present.            *)
(***************************************************************************)
EXTENDS Integers, Sequences, FiniteSets, TLC

VARIABLES
    \* ---- the run of the main program
    files,          \* what glob.glob found: a sequence of file contents
    config_data,    \* all_config_data: <<filename, rule>> pairs, in insertion order
    env,            \* the network environment the probes read
    pc,             \* position of the main program
    idx,            \* position of the for loop in config_data
    policy,         \* which policy matches_configuration selected for the rule
    sigs,           \* results of the signal predicates evaluated for the rule
    decision,       \* what matches_configuration returned for the rule
    err,            \* the exception that ended the run, or "None"
    stdout,         \* what has been printed
    \* ---- history of the run (not program state)
    snapshot,       \* the environment when the run started
    envChanged,     \* the environment changed since the run started
    diverged,       \* some comparison used a value other than the snapshot's
    stale,          \* some comparison used a value other than the live one
    probeFailed,    \* an invoked probe raised
    decided,        \* the decision of every rule evaluated so far
    \* ---- normalize_mac applied to inputs
    macIn,          \* an input text
    macAlt,         \* a respelling of macIn (case, zero padding)
    macOut,         \* normalize_mac(macIn)
    macAltOut,      \* normalize_mac(macAlt)
    macAgain,       \* normalize_mac(macOut)
    macMatch,       \* matches_mac_address of macAlt (configured) and macIn (observed)
    macPc

runVars == <<files, config_data, env, pc, idx, policy, sigs, decision, err, stdout>>
histVars == <<snapshot, envChanged, diverged, stale, probeFailed, decided>>
macVars == <<macIn, macAlt, macOut, macAltOut, macAgain, macMatch, macPc>>
vars == <<runVars, histVars, macVars>>

----------------------------------------------------------------------------
(* Bounds *)

\* longest input text given to normalize_mac in SpecMac
MaxLen == 5
\* most files the glob finds
MaxFiles == 2
\* width of an IP address in bits
AddrBits == 2

----------------------------------------------------------------------------
(* lib/normalize_mac.py *)

LowerHex == <<"0","1","2","3","4","5","6","7","8","9","a","b","c","d","e","f">>
UpperHex == <<"0","1","2","3","4","5","6","7","8","9","A","B","C","D","E","F">>

IsHexDigit(c) == \E i \in 1..16 : LowerHex[i] = c \/ UpperHex[i] = c

HexDigitValue(c) == (CHOOSE i \in 1..16 : LowerHex[i] = c \/ UpperHex[i] = c) - 1

\* mac.split(":"): the text between the colons, empty parts included
RECURSIVE Split(_)
Split(s) ==
    IF \A i \in 1..Len(s) : s[i] # ":"
    THEN <<s>>
    ELSE LET i == CHOOSE j \in 1..Len(s) :
                      s[j] = ":" /\ \A k \in 1..(j-1) : s[k] # ":"
         IN  <<SubSeq(s, 1, i-1)>> \o Split(SubSeq(s, i+1, Len(s)))

\* int(x, 16) raises ValueError: for a text of hex digits, ":", "-" inside the
\* text and letters past "f" (no leading sign, blank, underscore or "0x"),
\* exactly when x is empty or holds a character that is no hex digit
IntRaises(x) == Len(x) = 0 \/ \E i \in 1..Len(x) : ~IsHexDigit(x[i])

\* int(x, 16) of a text of hex digits
RECURSIVE Int16(_)
Int16(x) ==
    IF Len(x) = 0 THEN 0
    ELSE 16 * Int16(SubSeq(x, 1, Len(x)-1)) + HexDigitValue(x[Len(x)])

\* the digits of f"{n:x}"
RECURSIVE Hex(_)
Hex(n) == IF n < 16 THEN <<LowerHex[n+1]>> ELSE Hex(n \div 16) \o <<LowerHex[(n % 16) + 1]>>

Format02xNoPad(n) == Hex(n)

\* f"{part:02x}": lowercase hex, zero-padded to at least two digits
Format02x(n) == IF n < 16 THEN <<"0">> \o Hex(n) ELSE Hex(n)

\* ":".join(texts)
RECURSIVE Join(_)
Join(ts) ==
    IF Len(ts) = 0 THEN <<>>
    ELSE IF Len(ts) = 1 THEN ts[1]
    ELSE ts[1] \o <<":">> \o Join(Tail(ts))

Raise(e) == [ok |-> FALSE, exc |-> e, val |-> <<>>]
Return(v) == [ok |-> TRUE, exc |-> "None", val |-> v]

\* normalize_mac(mac) of a text
normalize_mac(mac) ==
    LET xs == Split(mac) IN
    IF \E i \in 1..Len(xs) : IntRaises(xs[i])
    THEN Raise("ValueError")
    ELSE Return(Join([i \in 1..Len(xs) |-> Format02x(Int16(xs[i]))]))

----------------------------------------------------------------------------
(* Values of the run *)

\* the criterion keys, in the order the policies evaluate them
CriterionKeys == <<"external_ip_address", "gateway_ip_address", "gateway_mac_address">>
Signals == {"ext", "gip", "gmac"}
KeyOf(s) == CASE s = "ext" -> "external_ip_address"
              [] s = "gip" -> "gateway_ip_address"
              [] s = "gmac" -> "gateway_mac_address"

TriState == {"True", "False", "None"}
Errors == {"ProbeError", "ValueError", "AttributeError"}

\* A configured IP value: a CIDR block (a bare address has bits = AddrBits), or
\* text ipcalc.Network cannot parse
Cidr(base, bits) == [valid |-> TRUE, base |-> base, bits |-> bits]
NotAnIp == [valid |-> FALSE, base |-> 0, bits |-> 0]

NetHome == Cidr(2^(AddrBits-1), 1)          \* the upper half of the address space
ExtInside == 2^AddrBits - 1
ExtOutside == NetHome.base - 1
GatewayAddr == Cidr(ExtOutside, AddrBits)   \* a bare gateway address
GwSame == GatewayAddr.base
GwOther == GatewayAddr.base + 1

MacObserved == <<"a","a",":","b","b",":","c","c",":","d","d",":","0","e",":","0","f">>
MacOther    == <<"a","a",":","b","b",":","c","c",":","d","d",":","0","e",":","0","0">>
MacUpper    == <<"A","A",":","B","B",":","C","C",":","D","D",":","E",":","F">>
MacBad      == <<"a","a","-","b","b","-","c","c","-","d","d","-","0","e","-","0","f">>

\* what a probe can answer
IpAnswer(v) == [ok |-> TRUE, val |-> v]
IpFails == [ok |-> FALSE, val |-> 0]
MacAnswer(m) == [ok |-> TRUE, none |-> FALSE, val |-> m]
MacNone == [ok |-> TRUE, none |-> TRUE, val |-> <<>>]
MacFails == [ok |-> FALSE, none |-> FALSE, val |-> <<>>]

Envs == [ext : {IpAnswer(ExtInside), IpAnswer(ExtOutside), IpFails},
         gip : {IpAnswer(GwSame), IpAnswer(GwOther), IpFails},
         gmac : {MacAnswer(MacObserved), MacAnswer(MacOther), MacNone}]

HomeEnv == [ext |-> IpAnswer(ExtInside), gip |-> IpAnswer(GwSame), gmac |-> MacAnswer(MacObserved)]
AwayEnv == [ext |-> IpAnswer(ExtOutside), gip |-> IpAnswer(GwOther), gmac |-> MacAnswer(MacOther)]

\* a rule: the keys of `keys`, with the values `full` gives them
Rule(keys, full) == [k \in keys |-> full[k]]

\* values a parsed require_all_matches can carry, named by their YAML spelling
SelectorValues == {"true", "false", "null", "0", "''", "'text'"}

PolicyRules ==
    { Rule(K, [require_all_matches |-> sel, external_ip_address |-> x,
               gateway_ip_address |-> g, gateway_mac_address |-> m]) :
        K \in SUBSET {"require_all_matches", "external_ip_address",
                      "gateway_ip_address", "gateway_mac_address"},
        sel \in SelectorValues, x \in {NetHome, NotAnIp},
        g \in {GatewayAddr, NotAnIp}, m \in {MacUpper, MacBad} }

Str(t) == [type |-> "str", val |-> <<t>>]
List(ts) == [type |-> "list", val |-> ts]

RuleAny == [name |-> "any"]
RuleHome == [name |-> "home", external_ip_address |-> NetHome,
             gateway_mac_address |-> MacUpper,
             connect_commands |-> List(<<"vpn down", "mount nas">>)]
RuleOffice == [require_all_matches |-> "false", external_ip_address |-> NetHome,
               gateway_ip_address |-> GatewayAddr, connect_commands |-> Str("vpn up")]

RuleBroken == [name |-> "broken", gateway_ip_address |-> NotAnIp]

YamlOk(r) == [yaml_ok |-> TRUE, rule |-> r]
YamlError == [yaml_ok |-> FALSE, rule |-> <<>>]
CoreFiles == {YamlOk(RuleAny), YamlOk(RuleHome), YamlOk(RuleOffice), YamlOk(RuleBroken),
              YamlError}

RECURSIVE SeqsUpTo(_, _)
SeqsUpTo(S, n) ==
    IF n = 0 THEN {<<>>}
    ELSE LET shorter == SeqsUpTo(S, n-1)
         IN  shorter \cup {Append(q, x) : q \in {r \in shorter : Len(r) = n-1}, x \in S}

----------------------------------------------------------------------------
(* lib/external_ip_address.py, lib/default_gateway.py: the probes *)

external_ip_cached(e) == snapshot.ext

\* external_ip(): the answer of api.ipify.org now, or the request raises
external_ip(e) == e.ext

gateway_ip_default(e) == IF e.gip.ok THEN e.gip ELSE IpAnswer(GwOther)

\* gateway_ip(): the default gateway now; no default route raises
gateway_ip(e) == e.gip

\* gateway_mac(): asks gateway_ip() first, then getmac, which answers None
\* when it finds no address
gateway_mac(e) == IF gateway_ip(e).ok THEN e.gmac ELSE MacFails

----------------------------------------------------------------------------
(* network_based_config.py: the predicates *)

\* test_ip_address in ipcalc.Network(value), for a parseable value
InNetwork(ip, net) ==
    ip \div 2^(AddrBits - net.bits) = net.base \div 2^(AddrBits - net.bits)

matches_ip_address_absent_false(item, key, test_ip_address) ==
    IF key \in DOMAIN item
    THEN IF ~item[key].valid THEN "ValueError"
         ELSE IF InNetwork(test_ip_address, item[key]) THEN "True" ELSE "False"
    ELSE "False"

matches_ip_address(item, key, test_ip_address) ==
    IF key \in DOMAIN item
    THEN IF ~item[key].valid THEN "ValueError"
         ELSE IF InNetwork(test_ip_address, item[key]) THEN "True" ELSE "False"
    ELSE "None"

\* test_mac_address is what gateway_mac() answered: a text, or None
matches_mac_address(item, key, test_mac_address) ==
    IF key \in DOMAIN item
    THEN IF test_mac_address.none THEN "AttributeError"
         ELSE LET normalized_test_mac_address == normalize_mac(test_mac_address.val)
                  normalized_config_mac_address == normalize_mac(item[key])
              IN  IF ~normalized_test_mac_address.ok THEN normalized_test_mac_address.exc
                  ELSE IF ~normalized_config_mac_address.ok THEN normalized_config_mac_address.exc
                  ELSE IF normalized_test_mac_address = normalized_config_mac_address
                       THEN "True" ELSE "False"
    ELSE "None"

\* the probe is an argument of the call: it runs before the key is looked up
matches_external_ip_address(item, e) ==
    IF ~external_ip(e).ok THEN "ProbeError"
    ELSE matches_ip_address(item, "external_ip_address", external_ip(e).val)

matches_gateway_ip_address(item, e) ==
    IF ~gateway_ip(e).ok THEN "ProbeError"
    ELSE matches_ip_address(item, "gateway_ip_address", gateway_ip(e).val)

matches_gateway_mac_address(item, e) ==
    IF ~gateway_mac(e).ok THEN "ProbeError"
    ELSE matches_mac_address(item, "gateway_mac_address", gateway_mac(e))

SignalOf(s, item, e) ==
    CASE s = "ext" -> matches_external_ip_address(item, e)
      [] s = "gip" -> matches_gateway_ip_address(item, e)
      [] s = "gmac" -> matches_gateway_mac_address(item, e)

----------------------------------------------------------------------------
(* network_based_config.py: the policies *)

\* bool(v) of a parsed YAML value
IsTruthy(v) == v \notin {"false", "null", "0", "''"}

\* matches_configuration: the policy its if statement calls
PolicyOf(item) ==
    LET require_all_matches ==
            IF "require_all_matches" \in DOMAIN item
            THEN item["require_all_matches"] ELSE "true"
    IN  IF IsTruthy(require_all_matches) THEN "match_all" ELSE "match_one"

match_all_operand_strict(r) == r = "True"

\* an operand of match_all's `and`: (result is not False)
match_all_operand(r) == r # "False"

match_one_operand_lenient(r) == r # "False"

\* an operand of match_one's `or`: (result is True)
match_one_operand(r) == r = "True"

\* ":".join's sibling "\n".join(texts)
RECURSIVE JoinLines(_)
JoinLines(ts) ==
    IF Len(ts) = 0 THEN <<>>
    ELSE IF Len(ts) = 1 THEN <<ts[1]>>
    ELSE <<ts[1], "\n">> \o JoinLines(Tail(ts))

\* list_commands: the text, as the pieces concatenated
list_commands(item) ==
    LET header == <<"# connect commands">>
                  \o (IF "name" \in DOMAIN item THEN <<" for '", item["name"], "'">> ELSE <<>>)
                  \o <<"\n">>
    IN  IF "connect_commands" \notin DOMAIN item THEN header
        ELSE IF item["connect_commands"].type = "str"
             THEN header \o item["connect_commands"].val
        ELSE IF item["connect_commands"].type = "list"
             THEN header \o JoinLines(item["connect_commands"].val)
        ELSE header

----------------------------------------------------------------------------
(* The run of the main program *)

Unevaluated == [s \in Signals |-> "unevaluated"]

InitMacIdle ==
    /\ macIn = <<>> /\ macAlt = <<>>
    /\ macOut = Raise("unset") /\ macAltOut = Raise("unset") /\ macAgain = Raise("unset")
    /\ macMatch = "unset"
    /\ macPc = "idle"

InitRun(fileSeqs, envs) ==
    /\ files \in fileSeqs
    /\ env \in envs
    /\ config_data = <<>>
    /\ pc = "start"
    /\ idx = 1
    /\ policy = "unset"
    /\ sigs = Unevaluated
    /\ decision = FALSE
    /\ err = "None"
    /\ stdout = <<>>
    /\ snapshot = env
    /\ envChanged = FALSE
    /\ diverged = FALSE
    /\ stale = FALSE
    /\ probeFailed = FALSE
    /\ decided = <<>>

\* the run over a few files, in an environment that may change under it
Init == InitRun(SeqsUpTo(CoreFiles, MaxFiles), {HomeEnv, AwayEnv}) /\ InitMacIdle

\* the evaluation of one rule, any rule, in any environment
InitPolicy == InitRun({<<YamlOk(r)>> : r \in PolicyRules}, Envs) /\ InitMacIdle

item == config_data[idx][2]

\* read_config_files: the files that parse, keyed by file name (here the file's
\* place in the glob's answer); a YAMLError is printed and the file left out
RECURSIVE Loaded(_, _)
Loaded(fs, n) ==
    IF n > Len(fs) THEN <<>>
    ELSE (IF fs[n].yaml_ok THEN <<<<n, fs[n].rule>>>> ELSE <<>>) \o Loaded(fs, n+1)

RECURSIVE YamlErrorsPrinted(_, _)
YamlErrorsPrinted(fs, n) ==
    IF n > Len(fs) THEN <<>>
    ELSE (IF fs[n].yaml_ok THEN <<>>
          ELSE <<[kind |-> "yaml_error", file |-> n, text |-> <<"YAMLError">>]>>)
         \o YamlErrorsPrinted(fs, n+1)

ReadConfigFiles ==
    /\ pc = "start"
    /\ config_data' = Loaded(files, 1)
    /\ stdout' = stdout \o YamlErrorsPrinted(files, 1)
    /\ pc' = "select"
    /\ UNCHANGED <<files, env, idx, policy, sigs, decision, err, histVars, macVars>>

\* the for statement takes the next rule and matches_configuration picks its policy
SelectPolicy ==
    /\ pc = "select"
    /\ idx <= Len(config_data)
    /\ policy' = PolicyOf(item)
    /\ sigs' = Unevaluated
    /\ pc' = "ext"
    /\ UNCHANGED <<files, config_data, env, idx, decision, err, stdout, histVars, macVars>>

\* the for statement is exhausted
Finish ==
    /\ pc = "select"
    /\ idx > Len(config_data)
    /\ pc' = "done"
    /\ UNCHANGED <<files, config_data, env, idx, policy, sigs, decision, err, stdout,
                   histVars, macVars>>

\* What follows the evaluation of signal s with result r inside match_all's
\* `and` chain or match_one's `or` chain: an exception ends the run; an operand
\* that decides the chain, or the last operand, returns the decision; otherwise
\* the next operand is evaluated.
AfterSignal(s, r, nextpc) ==
    IF r \in Errors
    THEN /\ pc' = "error"
         /\ err' = r
         /\ UNCHANGED <<sigs, decision>>
    ELSE /\ sigs' = [sigs EXCEPT ![s] = r]
         /\ UNCHANGED err
         /\ LET operand == IF policy = "match_all"
                           THEN match_all_operand(r) ELSE match_one_operand(r)
                decides == IF policy = "match_all" THEN ~operand ELSE operand
            IN  IF decides \/ nextpc = "end"
                THEN pc' = "decided" /\ decision' = operand
                ELSE pc' = nextpc /\ UNCHANGED decision

\* the history of a probe: did it raise, and was its answer, when the signal
\* compared it with a configured value (result r is True or False), the live
\* one and the snapshot's
History(r, answer, live, first) ==
    LET compared == r \in {"True", "False"} IN
    /\ probeFailed' = (probeFailed \/ ~live.ok)
    /\ stale' = (stale \/ (compared /\ answer # live))
    /\ diverged' = (diverged \/ (compared /\ answer # first))
    /\ UNCHANGED <<snapshot, envChanged, decided>>

EvalExternalIp ==
    /\ pc = "ext"
    /\ AfterSignal("ext", matches_external_ip_address(item, env), "gip")
    /\ History(matches_external_ip_address(item, env), external_ip(env), env.ext, snapshot.ext)
    /\ UNCHANGED <<files, config_data, env, idx, policy, stdout, macVars>>

EvalGatewayIp ==
    /\ pc = "gip"
    /\ AfterSignal("gip", matches_gateway_ip_address(item, env), "gmac")
    /\ History(matches_gateway_ip_address(item, env), gateway_ip(env), env.gip, snapshot.gip)
    /\ UNCHANGED <<files, config_data, env, idx, policy, stdout, macVars>>

EvalGatewayMac ==
    /\ pc = "gmac"
    /\ AfterSignal("gmac", matches_gateway_mac_address(item, env), "end")
    /\ History(matches_gateway_mac_address(item, env), gateway_mac(env),
               IF env.gip.ok THEN env.gmac ELSE MacFails,
               IF snapshot.gip.ok THEN snapshot.gmac ELSE MacFails)
    /\ UNCHANGED <<files, config_data, env, idx, policy, stdout, macVars>>

NextIndexBreak(i, matched) == IF matched THEN Len(config_data) + 1 ELSE i + 1

\* the for statement goes on to the next rule, matched or not
NextIndex(i, matched) == i + 1

\* if matches_configuration(value): print(list_commands(value))
Emit ==
    /\ pc = "decided"
    /\ stdout' = IF decision
                 THEN Append(stdout, [kind |-> "commands", file |-> config_data[idx][1],
                                      text |-> list_commands(item)])
                 ELSE stdout
    /\ decided' = Append(decided, decision)
    /\ idx' = NextIndex(idx, decision)
    /\ pc' = "select"
    /\ UNCHANGED <<files, config_data, env, policy, sigs, decision, err,
                   snapshot, envChanged, diverged, stale, probeFailed, macVars>>

\* the network changes while the program runs
EnvChange ==
    /\ pc \notin {"done", "error"}
    /\ env' \in Envs \ {env}
    /\ envChanged' = TRUE
    /\ UNCHANGED <<files, config_data, pc, idx, policy, sigs, decision, err, stdout,
                   snapshot, diverged, stale, probeFailed, decided, macVars>>

Step ==
    \/ ReadConfigFiles
    \/ SelectPolicy
    \/ EvalExternalIp
    \/ EvalGatewayIp
    \/ EvalGatewayMac
    \/ Emit
    \/ Finish

Next == Step \/ EnvChange

Spec == Init /\ [][Next]_vars

\* one rule evaluated while the environment stands still, so that the signals
\* the chain did not reach can be read off the environment afterwards
SpecPolicy == InitPolicy /\ [][Step]_vars

----------------------------------------------------------------------------
(* normalize_mac applied to input texts *)

MacAlphabet == {"0", "1", "a", "A", "g", ":"}

\* a text of colon-separated octets: two parts or more, each one or two hex
\* digits (an address has six; normalize_mac never counts them)
ValidMac(m) ==
    LET xs == Split(m) IN
    /\ Len(xs) >= 2
    /\ \A i \in 1..Len(xs) : Len(xs[i]) \in {1, 2} /\ ~IntRaises(xs[i])

\* lowercase, every octet two digits
Canonical(m) ==
    /\ ValidMac(m)
    /\ \A i \in 1..Len(m) : m[i] = ":" \/ \E j \in 1..16 : LowerHex[j] = m[i]
    /\ \A i \in 1..Len(Split(m)) : Len(Split(m)[i]) = 2

SwapCase(c) ==
    IF \E j \in 1..16 : LowerHex[j] = c
    THEN UpperHex[CHOOSE j \in 1..16 : LowerHex[j] = c]
    ELSE LowerHex[CHOOSE j \in 1..16 : UpperHex[j] = c]

\* the texts one change of spelling away from m: the case of one hex letter, or
\* the zero padding of one octet
Respellings(m) ==
    LET xs == Split(m) IN
    {[m EXCEPT ![i] = SwapCase(m[i])] : i \in {j \in 1..Len(m) : IsHexDigit(m[j])}}
    \cup {Join([xs EXCEPT ![i] = <<"0">> \o xs[i]]) : i \in {j \in 1..Len(xs) : Len(xs[j]) = 1}}
    \cup {Join([xs EXCEPT ![i] = Tail(xs[i])]) :
              i \in {j \in 1..Len(xs) : Len(xs[j]) = 2 /\ xs[j][1] = "0"}}

InitRunIdle ==
    /\ files = <<>> /\ config_data = <<>> /\ env = HomeEnv /\ pc = "idle" /\ idx = 1
    /\ policy = "unset" /\ sigs = Unevaluated /\ decision = FALSE /\ err = "None"
    /\ stdout = <<>> /\ snapshot = HomeEnv /\ envChanged = FALSE /\ diverged = FALSE
    /\ stale = FALSE /\ probeFailed = FALSE /\ decided = <<>>

InitMac ==
    /\ InitRunIdle
    /\ macIn \in SeqsUpTo(MacAlphabet, MaxLen)
    /\ macAlt = macIn
    /\ macOut = Raise("unset") /\ macAltOut = Raise("unset") /\ macAgain = Raise("unset")
    /\ macMatch = "unset"
    /\ macPc = "input"

\* the configured address is spelled another way
Respell ==
    /\ macPc = "input"
    /\ ValidMac(macIn)
    /\ macAlt' \in Respellings(macAlt)
    /\ UNCHANGED <<runVars, histVars, macIn, macOut, macAltOut, macAgain, macMatch, macPc>>

Normalize ==
    /\ macPc = "input"
    /\ macOut' = normalize_mac(macIn)
    /\ macAltOut' = normalize_mac(macAlt)
    /\ macPc' = "normalized"
    /\ UNCHANGED <<runVars, histVars, macIn, macAlt, macAgain, macMatch>>

Renormalize ==
    /\ macPc = "normalized"
    /\ macOut.ok
    /\ macAgain' = normalize_mac(macOut.val)
    /\ macPc' = "renormalized"
    /\ UNCHANGED <<runVars, histVars, macIn, macAlt, macOut, macAltOut, macMatch>>

Compare ==
    /\ macPc = "renormalized" \/ (macPc = "normalized" /\ ~macOut.ok)
    /\ macMatch' = matches_mac_address([gateway_mac_address |-> macAlt],
                                       "gateway_mac_address", MacAnswer(macIn))
    /\ macPc' = "compared"
    /\ UNCHANGED <<runVars, histVars, macIn, macAlt, macOut, macAltOut, macAgain>>

NextMac == Respell \/ Normalize \/ Renormalize \/ Compare

SpecMac == InitMac /\ [][NextMac]_vars

----------------------------------------------------------------------------
(* The claims *)

Evaluating == pc \in {"ext", "gip", "gmac", "decided", "error"}
AllTriState == \A s \in Signals : SignalOf(s, item, env) \in TriState
NoCriteria == \A s \in Signals : KeyOf(s) \notin DOMAIN item
Commands(out) == SelectSeq(out, LAMBDA o : o.kind = "commands")

\* C1: under match_all, whenever the three signals of the rule are tri-state
\* results, the evaluation returns, and returns True exactly when none of the
\* three is False; so a rule with no criteria evaluates True.
C1_MatchAll ==
    (pc \in {"decided", "error"} /\ policy = "match_all" /\ AllTriState)
        => /\ pc = "decided"
           /\ decision = (\A s \in Signals : SignalOf(s, item, env) # "False")
           /\ (NoCriteria => decision)

C1_Witness ==
    pc = "decided" /\ policy = "match_all" /\ NoCriteria /\ decision

\* C2: under match_one, whenever the three signals of the rule are tri-state
\* results, the evaluation returns, and returns True exactly when some signal
\* is True; None never counts, so a rule with no criteria evaluates False.
C2_MatchOne ==
    (pc \in {"decided", "error"} /\ policy = "match_one" /\ AllTriState)
        => /\ pc = "decided"
           /\ decision = (\E s \in Signals : SignalOf(s, item, env) = "True")
           /\ (NoCriteria => ~decision)

C2_Witness ==
    /\ pc = "decided" /\ policy = "match_one" /\ decision
    /\ SignalOf("ext", item, env) = "False"
    /\ SignalOf("gip", item, env) = "True"

\* C3: match_one is selected only for a rule whose require_all_matches is the
\* explicit false.
C3_OnlyExplicitFalseSelectsAny ==
    (Evaluating /\ policy = "match_one")
        => ("require_all_matches" \in DOMAIN item /\ item["require_all_matches"] = "false")

MalformedIp(r) ==
    \E k \in {"external_ip_address", "gateway_ip_address"} : k \in DOMAIN r /\ ~r[k].valid

\* C4: a rule whose external_ip_address or gateway_ip_address value is not a
\* parseable IP/CIDR never gets a boolean decision.
C4_MalformedIpNeverDecides == pc = "decided" => ~MalformedIp(item)

\* C5 (as claimed): every comparison of a signal uses the value the run's first
\* snapshot holds, whatever the environment does meanwhile.
C5_SameObservedValues == ~diverged

\* C5 (amended): every comparison of a signal uses the value the environment
\* holds when that signal is evaluated; all comparisons use the values of the
\* start of the run as long as the environment has not changed.
C5_LiveValues == ~stale /\ (~envChanged => ~diverged)

C5_Witness == pc = "done" /\ envChanged /\ diverged /\ Len(decided) = 2

\* C6 (as claimed): once a probe has failed the run ends in error and no rule's
\* commands have been printed.
C6_ProbeFailureEmitsNothing ==
    probeFailed => (pc = "error" /\ Commands(stdout) = <<>>)

\* C6 (amended): once an invoked probe has raised, the run has ended in that
\* error, it never completes normally, and the only commands printed are those
\* of rules before the one under evaluation.
C6_ProbeFailureEndsRun ==
    probeFailed => /\ pc = "error"
                   /\ err = "ProbeError"
                   /\ \A i \in 1..Len(stdout) :
                          stdout[i].kind = "commands" => stdout[i].file < config_data[idx][1]

C6_Witness == probeFailed /\ pc = "error" /\ Commands(stdout) # <<>>

\* the commands of the rules decided True among the first n rules, in load order
RECURSIVE Expected(_, _)
Expected(ds, n) ==
    IF n = 0 THEN <<>>
    ELSE Expected(ds, n-1)
         \o (IF ds[n]
             THEN <<[kind |-> "commands", file |-> config_data[n][1],
                     text |-> list_commands(config_data[n][2])]>>
             ELSE <<>>)

\* C7: the commands printed are those of the rules decided True so far, once
\* each and in load order, and a run that ends without error has decided every
\* loaded rule.
C7_EveryRuleEvaluated ==
    /\ Commands(stdout) = Expected(decided, Len(decided))
    /\ pc = "done" => Len(decided) = Len(config_data)

C7_Witness ==
    /\ pc = "done" /\ Len(config_data) = 2 /\ decided = <<TRUE, TRUE>>
    /\ Len(Commands(stdout)) = 2

\* C8: a signal's result is None exactly when its key is absent from the rule;
\* a present key gives True, False or an exception, an absent one never True
\* or False.
C8_NoOpinionIffAbsent ==
    Evaluating =>
        \A s \in Signals :
            /\ sigs[s] # "unevaluated" =>
                   /\ sigs[s] \in TriState
                   /\ (sigs[s] = "None") <=> (KeyOf(s) \notin DOMAIN item)
            /\ KeyOf(s) \in DOMAIN item => SignalOf(s, item, env) \in {"True", "False"} \cup Errors
            /\ KeyOf(s) \notin DOMAIN item => SignalOf(s, item, env) \in {"None", "ProbeError"}

C8_Witness ==
    pc = "decided" /\ sigs["ext"] = "None" /\ sigs["gip"] = "True" /\ sigs["gmac"] = "False"

\* C9: normalize_mac raises for every text that is not colon-separated octets.
C9_RejectsNonOctets ==
    (macPc \in {"normalized", "renormalized", "compared"} /\ ~ValidMac(macIn)) => ~macOut.ok

\* C10: for a valid colon-delimited address, normalize_mac returns a text that
\* it returns unchanged when applied again, returns a canonical address
\* unchanged, returns the same text for every respelling (case, zero padding) of
\* the address, and matches_mac_address of the two spellings is True.
C10_NormalizeIdempotentInsensitive ==
    ValidMac(macIn) =>
        /\ macPc \in {"normalized", "renormalized", "compared"} =>
               /\ macOut.ok /\ macAltOut.ok
               /\ macAltOut = macOut
               /\ Canonical(macOut.val)
               /\ Canonical(macIn) => macOut.val = macIn
        /\ macPc \in {"renormalized", "compared"} => macAgain = macOut
        /\ macPc = "compared" => macMatch = "True"

C10_Witness ==
    /\ macPc = "compared" /\ ValidMac(macIn) /\ macMatch = "True"
    /\ macAlt # macIn /\ Len(macAlt) # Len(macIn) /\ ~Canonical(macIn)

====
